---- MODULE Spec2Model ----
(***************************************************************************)
(* Model of the reflection-based dependency injection container            *)
(* (package container).  The container's fields are the state; every       *)
(* exported method is one action.  The recursive resolution                *)
(* (createComponent / wireComponent / findDep / ...) is computed by        *)
(* RECURSIVE operators over a record holding the container's fields, so    *)
(* that one action is one whole call.                                      *)
(***************************************************************************)
EXTENDS Integers, Sequences, FiniteSets, TLC

(***************************************************************************)
(* Bounds of the model.                                                    *)
(***************************************************************************)
\* number of Register / RegisterAsInterface calls in a run
MaxRegs == 2
\* number of Build / Exec / Run calls in a run
MaxCalls == 2
\* nesting depth of createComponent after which the recursion is taken to
\* be unbounded (Go: the goroutine stack overflows, a fatal runtime error)
MaxDepth == 5

(***************************************************************************)
(* The universe of types the calls are drawn from.  The program is         *)
(* generic in the types it is given; these are the example's types         *)
(* (src/examples) plus the shapes the resolver distinguishes.              *)
(*   depContainer  the container itself, implements Container              *)
(*   Store         InMemoryUserStore: no hook, no settable field           *)
(*   Svc           ConcreteUserService: New(IStore), Init(), ptr receivers *)
(*   App           Runnable with the settable field UsrSvc of type ISvc    *)
(*   Deco          a decorating store: New(IStore) with a VALUE receiver   *)
(*   Audit         an IStore with a settable field of struct type Svc      *)
(*   Cyc           a type with a settable field of type pointer-to-Cyc     *)
(*   Cache         an IStore with New(Container) with a VALUE receiver     *)
(*   Loop          Runnable that implements ILoop and has a settable       *)
(*                 field of type ILoop                                     *)
(***************************************************************************)
Types ==
  {"depContainer", "Store", "Svc", "App", "Deco", "Audit", "Cyc", "Cache", "Loop"}

Ifaces == {"Container", "IStore", "ISvc", "ILoop"}

Req(k, n) == [kind |-> k, name |-> n]

\* reflect.New(t).Type().Implements(i): the interfaces *t implements
Implements(t) ==
  CASE t = "depContainer" -> {"Container"}
    [] t = "Store" -> {"IStore"}
    [] t = "Deco" -> {"IStore"}
    [] t = "Audit" -> {"IStore"}
    [] t = "Cache" -> {"IStore"}
    [] t = "Svc" -> {"ISvc"}
    [] t = "Loop" -> {"ILoop"}
    [] OTHER -> {}

\* the parameters of the method New, the receiver not counted
NewParams(t) ==
  CASE t = "Svc" -> <<Req("iface", "IStore")>>
    [] t = "Deco" -> <<Req("iface", "IStore")>>
    [] t = "Cache" -> <<Req("iface", "Container")>>
    [] OTHER -> <<>>

\* New is in the method set of the pointer type *t (any receiver)
HasNewPtr(t) == t \in {"Svc", "Deco", "Cache"}

\* New is in the method set of the struct type t (value receiver only)
HasNewVal(t) == t \in {"Deco", "Cache"}

\* Init is in the method set of the pointer type *t
HasInit(t) == t \in {"Svc"}

\* the fields of t that CanSet() accepts (exported), in declaration order
Fields(t) ==
  CASE t = "App" -> <<Req("iface", "ISvc")>>
    [] t = "Audit" -> <<Req("struct", "Svc")>>
    [] t = "Cyc" -> <<Req("ptr", "Cyc")>>
    [] t = "Loop" -> <<Req("iface", "ILoop")>>
    [] OTHER -> <<>>

\* the functions handed to Exec, by their parameter lists
Fns == {"SeedUsers", "ListStore"}

FnParams(f) ==
  CASE f = "SeedUsers" -> <<Req("iface", "ISvc"), Req("iface", "Container")>>
    [] f = "ListStore" -> <<Req("iface", "IStore")>>
    [] OTHER -> <<>>

\* the types whose pointers implement Runnable
Runnables == {"App", "Loop"}

(***************************************************************************)
(* Helpers on maps and sequences.                                          *)
(***************************************************************************)
Put(f, k, v) == [x \in (DOMAIN f) \cup {k} |-> IF x = k THEN v ELSE f[x]]

EmptyMap == [x \in {} |-> 0]

Range(s) == {s[i] : i \in DOMAIN s}

\* s with s[i] set to v, s grown by one when i is just past its end
SetAt(s, i, v) == IF i > Len(s) THEN Append(s, v) ELSE [s EXCEPT ![i] = v]

\* the element of a one-element set; Only({e(v) : v \in {x}}) is e(x) with x
\* evaluated once
Only(S) == CHOOSE v \in S : TRUE

Min(S) == CHOOSE x \in S : \A y \in S : x <= y

\* an instance on the heap: its type, where it comes from ("registered":
\* handed to Register as a pointer, "runnable": handed to Run, "container":
\* allocated by createComponent), how often New and Init were called on it,
\* how often wireComponent completed on it, and the values it was given
NewInst(t, o) ==
  [typ |-> t, origin |-> o, news |-> 0, inits |-> 0, wires |-> 0, deps |-> <<>>,
   users |-> IF o = "registered" THEN 1 ELSE 0]

\* a resolved value: the pointer to instance id, or a copy of it (Elem())
Val(i, cp) == [id |-> i, copy |-> cp]

\* the entry of c.refs for t, 0 without one
CachedAt(c, t) == IF t \in DOMAIN c.refs THEN c.refs[t] ELSE 0

\* one step of a call: what happened (ev) to which type and instance, the
\* types being created (cr) and the entry of the type in c.refs (at) then
Ev(k, t, i, a, cr, at) ==
  [ev |-> k, typ |-> t, id |-> i, aux |-> a, cr |-> cr, at |-> at]

Emit(c, k, t, i, a) ==
  [c EXCEPT !.events = Append(@, Ev(k, t, i, a, c.creating, CachedAt(c, t)))]

Fail(c, s) == [c EXCEPT !.status = s]

Res(c, v) == [c |-> c, v |-> v]

(***************************************************************************)
(* The resolver.  c is the record of the container's fields (types,        *)
(* impls, refs, creating, hasBuilt) together with the heap of instances    *)
(* (insts), the trace of the current call (events) and how the call        *)
(* stands: "ok", "panic" (a Go panic, which unwinds through the defers     *)
(* and which a caller may recover), "fatal" (log.Fatal: the process        *)
(* exits) or "overflow" (unbounded recursion: the runtime aborts).         *)
(* Every operator returns Res(c, v): the fields afterwards and its value.  *)
(***************************************************************************)
RECURSIVE createComponent(_, _, _)
RECURSIVE wireComponent(_, _, _, _)
RECURSIVE wireFields(_, _, _, _, _)
RECURSIVE resolveInputs(_, _, _, _, _)
RECURSIVE findDep(_, _, _, _)
RECURSIVE getOrCreateComponent(_, _, _)
RECURSIVE getOrCreateImpl(_, _, _, _)
RECURSIVE implOf(_, _, _, _)

\* constructorArgCount: -1 without New in the method set of the struct
\* type; otherwise NumIn() of the method expression, the receiver included
constructorArgCount(t) == IF HasNewVal(t) THEN Len(NewParams(t)) + 1 ELSE -1

\* verifyRegistry: TRUE when typ is in c.types (log.Fatal otherwise)
verifyRegistry(c, typ) == typ \in Range(c.types)

\* findImplementor without the Implements test of line 241: the bound type
\* unless it is being created, otherwise the first type of c.types that is
\* not being created
findImplementorAnyType(c, bld, iface) ==
  IF iface \in DOMAIN c.impls /\ c.impls[iface] \notin c.creating
  THEN Res(Emit(c, "chose", c.impls[iface], 0, iface), c.impls[iface])
  ELSE Only({IF cand = {}
             THEN Res(Fail(Emit(c, "noimpl", bld, 0, iface), "panic"), "")
             ELSE Res(Emit([c EXCEPT !.impls = Put(@, iface, c.types[Min(cand)])],
                           "chose", c.types[Min(cand)], 0, iface),
                      c.types[Min(cand)]) :
             cand \in {{i \in 1..Len(c.types) : c.types[i] \notin c.creating}}})

\* findImplementor: the bound type unless it is being created, otherwise
\* the first type of c.types that implements iface and is not being
\* created (event scan), which is then bound; a panic when there is none
findImplementor(c, bld, iface) ==
  IF iface \in DOMAIN c.impls /\ c.impls[iface] \notin c.creating
  THEN Res(Emit(c, "chose", c.impls[iface], 0, iface), c.impls[iface])
  ELSE Only({IF cand = {}
             THEN Res(Fail(Emit(c, "noimpl", bld, 0, iface), "panic"), "")
             ELSE Res(Emit(Emit([c EXCEPT !.impls = Put(@, iface, c.types[Min(cand)])],
                                "scan", c.types[Min(cand)], 0, iface),
                           "chose", c.types[Min(cand)], 0, iface),
                      c.types[Min(cand)]) :
             cand \in {{i \in 1..Len(c.types) :
                          /\ iface \in Implements(c.types[i])
                          /\ c.types[i] \notin c.creating}}})

\* getOrCreateComponent without the lookup in c.refs of lines 159-161: every
\* requirement constructs a new instance
getOrCreateComponentFresh(c, typ, d) ==
  IF ~verifyRegistry(c, typ)
  THEN Res(Fail(Emit(c, "nodep", typ, 0, ""), "fatal"), 0)
  ELSE createComponent(c, typ, d)

\* getOrCreateComponent: the cached instance of a registered type, or a
\* newly created one
getOrCreateComponent(c, typ, d) ==
  IF ~verifyRegistry(c, typ)
  THEN Res(Fail(Emit(c, "nodep", typ, 0, ""), "fatal"), 0)
  ELSE IF typ \in DOMAIN c.refs
       THEN Res(c, c.refs[typ])
       ELSE createComponent(c, typ, d)

\* the instance of the implementor f.v that findImplementor chose
implOf(c, iface, f, d) ==
  IF f.c.status # "ok"
  THEN Res(f.c, 0)
  ELSE Only({IF g.c.status # "ok"
             THEN g
             ELSE Res([g.c EXCEPT !.events =
                        Append(@, Ev("impl", f.v, g.v, iface, c.creating,
                                     CachedAt(g.c, f.v)))], g.v) :
             g \in {getOrCreateComponent(f.c, f.v, d)}})

\* getOrCreateImpl: the instance of the implementor chosen for iface
getOrCreateImpl(c, bld, iface, d) ==
  Only({implOf(c, iface, f, d) : f \in {findImplementor(c, bld, iface)}})

\* findDep: a pointer requirement gives the instance of its element type,
\* an interface requirement that of its implementor, anything else the
\* dereferenced instance (a copy)
findDep(c, bld, req, d) ==
  CASE req.kind = "ptr" ->
         Only({Res(g.c, Val(g.v, FALSE)) : g \in {getOrCreateComponent(c, req.name, d)}})
    [] req.kind = "iface" ->
         Only({Res(g.c, Val(g.v, FALSE)) : g \in {getOrCreateImpl(c, bld, req.name, d)}})
    [] OTHER ->
         Only({Res(g.c, Val(g.v, TRUE)) : g \in {getOrCreateComponent(c, req.name, d)}})

\* the loop of executeFunc: the inputs for params[i..], in order
resolveInputs(c, typ, params, i, d) ==
  IF i > Len(params)
  THEN Res(c, <<>>)
  ELSE Only({IF f.c.status # "ok"
             THEN Res(f.c, <<>>)
             ELSE Only({Res(r.c, <<f.v>> \o r.v) :
                        r \in {resolveInputs(f.c, typ, params, i + 1, d)}}) :
             f \in {findDep(c, typ, params[i], d)}})

\* executeFunc up to fn.Call: the inputs of a function with these params
executeFunc(c, typ, params, d) == resolveInputs(c, typ, params, 1, d)

\* the loop of wireComponent over the settable fields i.. of instance id
wireFields(c, typ, id, i, d) ==
  IF i > Len(Fields(typ))
  THEN Res(c, id)
  ELSE Only({IF f.c.status # "ok"
             THEN Res(f.c, id)
             ELSE wireFields([f.c EXCEPT !.insts[id].deps = SetAt(@, i, f.v)],
                             typ, id, i + 1, d) :
             f \in {findDep(c, typ, Fields(typ)[i], d)}})

\* wireComponent with the assignment c.refs[typ] = val moved to its first
\* line: the entry exists while the fields or the inputs of New are resolved
wireComponentStoreFirst(c, typ, id, d) ==
  IF ~HasNewPtr(typ)
  THEN Only({IF w.c.status # "ok"
             THEN w
             ELSE Res(Emit([w.c EXCEPT !.insts[id].wires = @ + 1],
                           "wire", typ, id, "fields"), id) :
             w \in {wireFields([c EXCEPT !.refs = Put(@, typ, id)], typ, id, 1, d)}})
  ELSE Only({IF x.c.status # "ok"
             THEN Res(x.c, id)
             ELSE Res(Emit([x.c EXCEPT !.insts[id].news = @ + 1,
                                       !.insts[id].wires = @ + 1,
                                       !.insts[id].deps =
                                          IF HasNewVal(typ) THEN @ ELSE x.v],
                           "wire", typ, id, "New"), id) :
             x \in {executeFunc([c EXCEPT !.refs = Put(@, typ, id)],
                                typ, NewParams(typ), d)}})

\* wireComponent: without New (pointer method set) every settable field
\* is resolved and set; with New its parameters are resolved and it is
\* called.  Either way the instance is then stored as c.refs[typ].
wireComponent(c, typ, id, d) ==
  IF ~HasNewPtr(typ)
  THEN Only({IF w.c.status # "ok"
             THEN w
             ELSE Res(Emit([w.c EXCEPT !.refs = Put(@, typ, id),
                                       !.insts[id].wires = @ + 1],
                           "wire", typ, id, "fields"), id) :
             w \in {wireFields(c, typ, id, 1, d)}})
  ELSE Only({IF x.c.status # "ok"
             THEN Res(x.c, id)
             ELSE Res(Emit([x.c EXCEPT !.refs = Put(@, typ, id),
                                       !.insts[id].news = @ + 1,
                                       !.insts[id].wires = @ + 1,
                                       !.insts[id].deps =
                                          IF HasNewVal(typ) THEN @ ELSE x.v],
                           "wire", typ, id, "New"), id) :
             x \in {executeFunc(c, typ, NewParams(typ), d)}})

\* createComponent: typ is marked as being created, a zero instance is
\* allocated and wired, and the mark is removed by the deferred delete
\* (also when a panic unwinds).  d is the nesting depth.
createComponent(c, typ, d) ==
  IF d >= MaxDepth
  THEN Res(Fail(c, "overflow"), 0)
  ELSE Only({IF w.c.status \in {"ok", "panic"}
             THEN Res([w.c EXCEPT !.creating = @ \ {typ}], w.v)
             ELSE w :
             w \in {wireComponent(
                      Emit([c EXCEPT !.creating = @ \cup {typ},
                                     !.insts = Append(@, NewInst(typ, "container"))],
                           "alloc", typ, Len(c.insts) + 1, ""),
                      typ, Len(c.insts) + 1, d + 1)}})

(***************************************************************************)
(* Build.                                                                  *)
(***************************************************************************)
RECURSIVE createRegistered(_, _)
RECURSIVE insertInto(_, _)
RECURSIVE sortTypes(_, _)
RECURSIVE initRefs(_, _, _)

\* sort.Slice(c.types, less by constructorArgCount).  sort.Slice is not
\* stable in general, but on a slice of fewer than 7 elements every Go
\* release runs a plain insertion sort (the Shell pass and the pivoting
\* start at 7 and 12 elements), and the registries of the model are
\* shorter.  insertInto is its inner loop: ts[j] moves down while it is
\* less than its predecessor.
insertInto(ts, j) ==
  IF j > 1 /\ constructorArgCount(ts[j]) < constructorArgCount(ts[j - 1])
  THEN insertInto([ts EXCEPT ![j] = ts[j - 1], ![j - 1] = ts[j]], j - 1)
  ELSE ts

\* the outer loop of the insertion sort, from position i on
sortTypes(ts, i) ==
  IF i > Len(ts) THEN ts ELSE sortTypes(insertInto(ts, i), i + 1)

\* the first loop of Build with `break` for the `continue` of line 121: the
\* loop ends at the first type that has an entry in c.refs
createRegisteredBreak(c, i) ==
  IF i > Len(c.types)
  THEN c
  ELSE IF c.types[i] \in DOMAIN c.refs
       THEN c
       ELSE Only({IF r.c.status # "ok" THEN r.c ELSE createRegistered(r.c, i + 1) :
                  r \in {createComponent(c, c.types[i], 0)}})

\* the first loop of Build: every type of c.types from position i on that
\* has no entry in c.refs is created
createRegistered(c, i) ==
  IF i > Len(c.types)
  THEN c
  ELSE IF c.types[i] \in DOMAIN c.refs
       THEN createRegistered(c, i + 1)
       ELSE Only({IF r.c.status # "ok" THEN r.c ELSE createRegistered(r.c, i + 1) :
                  r \in {createComponent(c, c.types[i], 0)}})

\* the orders in which `range c.refs` can visit the entries with Init
InitOrders(c) ==
  LET ts == {t \in DOMAIN c.refs : HasInit(c.insts[c.refs[t]].typ)}
      n == Cardinality(ts)
  IN {q \in [1..n -> ts] : \A i, j \in 1..n : q[i] = q[j] => i = j}

\* the second loop of Build: Init is called on the entries of order
initRefs(c, order, i) ==
  IF i > Len(order)
  THEN c
  ELSE initRefs(Emit([c EXCEPT !.insts[c.refs[order[i]]].inits = @ + 1],
                     "Init", order[i], c.refs[order[i]], ""), order, i + 1)

\* Build: every outcome of one call (one per order of the map iteration).
\* hasBuilt is set only when both loops have finished.
BuildOutcomes(c) ==
  UNION {IF m.status # "ok"
         THEN {m}
         ELSE {Emit([initRefs(m, o, 1) EXCEPT !.hasBuilt = TRUE], "built", "", 0, "") :
                 o \in InitOrders(m)} :
         m \in {createRegistered(Emit([c EXCEPT !.types = sortTypes(c.types, 2)],
                                      "build", "", 0, ""), 1)}}

\* Exec and Run calling c.Build() without the test of hasBuilt
EnsureBuiltAlways(c) == BuildOutcomes(c)

\* `if !c.hasBuilt { c.Build() }` of Exec and Run
EnsureBuilt(c) == IF c.hasBuilt THEN {c} ELSE BuildOutcomes(c)

(***************************************************************************)
(* Load and TryLoad.  A marker is the value handed in, described by its    *)
(* reflect.Type: a struct type T, or a pointer to a struct type or to an   *)
(* interface type (a nil pointer of that type).                            *)
(***************************************************************************)
\* typ.Elem() of a pointer type
Elem(m) == IF m.name \in Ifaces THEN Req("iface", m.name) ELSE Req("struct", m.name)

RECURSIVE getNormalizedType(_, _)

\* getNormalizedType: a pointer is replaced by its element; an interface
\* by the type bound to it, if any; any other type is kept
getNormalizedType(c, m) ==
  CASE m.kind = "ptr" -> getNormalizedType(c, Elem(m))
    [] m.kind = "iface" ->
         IF m.name \in DOMAIN c.impls
         THEN [typ |-> c.impls[m.name], ok |-> TRUE]
         ELSE [typ |-> "", ok |-> FALSE]
    [] OTHER -> [typ |-> m.name, ok |-> TRUE]

\* TryLoad without the `!ok` test of line 213 on the lookup in c.refs: a
\* missing entry is handed back as a nil value that counts as found
TryLoadResultNoMiss(c, m) ==
  Only({IF ~n.ok
        THEN [id |-> 0, ok |-> FALSE]
        ELSE IF n.typ \notin DOMAIN c.refs
             THEN [id |-> 0, ok |-> TRUE]
             ELSE [id |-> c.refs[n.typ], ok |-> TRUE] :
        n \in {getNormalizedType(c, m)}})

\* the result of TryLoad: the cached instance of the normalized type;
\* id 0 stands for nil
TryLoadResult(c, m) ==
  Only({IF ~n.ok
        THEN [id |-> 0, ok |-> FALSE]
        ELSE IF n.typ \notin DOMAIN c.refs
             THEN [id |-> 0, ok |-> FALSE]
             ELSE [id |-> c.refs[n.typ], ok |-> TRUE] :
        n \in {getNormalizedType(c, m)}})

(***************************************************************************)
(* The state: the container's fields, the heap, and a record of the last   *)
(* call with the trace of what it did.                                     *)
(***************************************************************************)
VARIABLES
  types,     \* c.types
  impls,     \* c.impls
  refs,      \* c.refs: type -> index into insts
  creating,  \* c.creating, as a set
  hasBuilt,  \* c.hasBuilt
  insts,     \* the heap: every instance allocated so far
  events,    \* what the last call did, in order
  last,      \* the last call: method, argument, outcome
  alive,     \* FALSE once log.Fatal or the runtime has ended the process
  regs,      \* number of Register / RegisterAsInterface calls so far
  calls,     \* number of Build / Exec / Run calls so far
  wg,        \* c.wg: the counter of the sync.WaitGroup
  work,      \* the goroutines started by ExecAsync / RunAsync, in order
  main       \* the calling goroutine: "run", or "waiting" inside Wait

vars ==
  <<types, impls, refs, creating, hasBuilt, insts, events, last, alive, regs, calls,
    wg, work, main>>

\* what only the asynchronous methods touch
asyncVars == <<wg, work, main>>

\* the container's fields as the resolver's record, at the start of a call
Cur ==
  [types |-> types, impls |-> impls, refs |-> refs, creating |-> creating,
   hasBuilt |-> hasBuilt, insts |-> insts, events |-> <<>>, status |-> "ok"]

\* the fields as a call leaves them; a fatal end leaves the process dead
Commit(c) ==
  /\ types' = c.types
  /\ impls' = c.impls
  /\ refs' = c.refs
  /\ creating' = c.creating
  /\ hasBuilt' = c.hasBuilt
  /\ insts' = c.insts
  /\ events' = c.events
  /\ alive' = (c.status \in {"ok", "panic"})

Call(op, arg, iface, res, val, args) ==
  [op |-> op, arg |-> arg, iface |-> iface, res |-> res, val |-> val, args |-> args]

NoArg == Req("", "")

\* New(): the container registers itself as the implementor of Container
Init ==
  /\ types = <<"depContainer">>
  /\ impls = [i \in {"Container"} |-> "depContainer"]
  /\ refs = [t \in {"depContainer"} |-> 1]
  /\ creating = {}
  /\ hasBuilt = FALSE
  /\ insts = <<NewInst("depContainer", "registered")>>
  /\ events = <<>>
  /\ last = Call("New", NoArg, "", "ok", 0, <<>>)
  /\ alive = TRUE
  /\ regs = 0
  /\ calls = 0
  /\ wg = 0
  /\ work = <<>>
  /\ main = "run"

(***************************************************************************)
(* Registration.  The values handed in: a struct value T{} or a pointer    *)
(* to a new instance, &T{...}.  Register(a, b) is Register(a) followed by  *)
(* Register(b), so the calls of the model take one component.              *)
(***************************************************************************)
Comps ==
  {Req("struct", t) : t \in {"Store", "Svc", "Deco", "Audit", "Cyc", "Cache"}}
    \cup {Req("ptr", t) : t \in {"Store", "Svc", "Loop"}}

\* the pairs handed to RegisterAsInterface: an interface marker and a
\* component; the last two are the calls the method rejects
AsInputs ==
  {<<Req("ptr", "IStore"), Req("struct", "Deco")>>,
   <<Req("ptr", "IStore"), Req("ptr", "Store")>>,
   <<Req("ptr", "ISvc"), Req("struct", "Store")>>,
   <<Req("ptr", "Store"), Req("struct", "Store")>>}

\* the `if typ.Kind() == reflect.Ptr` block: the pointer is stored as the
\* entry of its element type
storeRef(c, cmp) ==
  IF cmp.kind = "ptr"
  THEN [c EXCEPT !.insts = Append(@, NewInst(cmp.name, "registered")),
                 !.refs = Put(@, cmp.name, Len(c.insts) + 1)]
  ELSE c

Register(cmp) ==
  /\ alive /\ regs < MaxRegs
  /\ Commit([storeRef(Cur, cmp) EXCEPT !.types = Append(@, cmp.name)])
  /\ last' = Call("Register", cmp, "", "ok", 0, <<>>)
  /\ regs' = regs + 1
  /\ calls' = calls
  /\ UNCHANGED asyncVars

RegisterAsInterface(iface, cmp) ==
  /\ alive /\ regs < MaxRegs
  /\ \E out \in {IF Elem(iface).kind # "iface"
                   THEN Fail(Cur, "fatal")
                   ELSE IF iface.name \notin Implements(cmp.name)
                        THEN Fail(storeRef(Cur, cmp), "fatal")
                        ELSE [storeRef(Cur, cmp) EXCEPT
                                !.types = Append(@, cmp.name),
                                !.impls = Put(@, iface.name, cmp.name)]} :
       /\ Commit(out)
       /\ last' = Call("RegisterAsInterface", cmp, iface.name, out.status, 0, <<>>)
  /\ regs' = regs + 1
  /\ calls' = calls
  /\ UNCHANGED asyncVars

(***************************************************************************)
(* Build, Exec, Run.                                                       *)
(***************************************************************************)
\* fn.Call(inputs): what the function does with its inputs.  SeedUsers
\* calls svc.Create twice, and Create is svc.store.Save(u): two users are
\* appended to the store the service holds; a service whose New never ran
\* holds a nil store, and the call panics.  ListStore only reads.
FnBody(c, fn, args) ==
  IF fn = "SeedUsers"
  THEN IF c.insts[args[1].id].deps = <<>>
       THEN Fail(c, "panic")
       ELSE [c EXCEPT !.insts[c.insts[args[1].id].deps[1].id].users = @ + 2]
  ELSE c

\* r.Run(): App.Run reads a.UsrSvc.ListAll(), that is svc.store.GetAll(),
\* which panics on the nil store of a service whose New never ran
RunBody(c, typ, id) ==
  IF typ = "App" /\ c.insts[c.insts[id].deps[1].id].deps = <<>>
  THEN Fail(c, "panic")
  ELSE c

Build ==
  /\ alive /\ calls < MaxCalls
  /\ \E b \in BuildOutcomes(Cur) :
       /\ Commit(b)
       /\ last' = Call("Build", NoArg, "", b.status, 0, <<>>)
  /\ calls' = calls + 1
  /\ regs' = regs
  /\ UNCHANGED asyncVars

Exec(fn) ==
  /\ alive /\ calls < MaxCalls
  /\ \E b \in EnsureBuilt(Cur) :
       \E x \in {IF b.status # "ok" THEN Res(b, <<>>)
                 ELSE executeFunc(b, fn, FnParams(fn), 0)} :
         \E y \in {IF x.c.status # "ok" THEN x.c
                   ELSE FnBody(Emit(x.c, "call", fn, 0, ""), fn, x.v)} :
           /\ Commit(y)
           /\ last' = Call("Exec", Req("fn", fn), "", y.status, 0, x.v)
  /\ calls' = calls + 1
  /\ regs' = regs
  /\ UNCHANGED asyncVars

\* Run(&T{}): r points to a new instance of the Runnable type typ
Run(typ) ==
  /\ alive /\ calls < MaxCalls
  /\ \E b \in EnsureBuilt([Cur EXCEPT !.insts = Append(@, NewInst(typ, "runnable"))]) :
       \E w \in {IF b.status # "ok" THEN Res(b, 0)
                 ELSE wireComponent(Emit(b, "given", typ, Len(insts) + 1, ""),
                                    typ, Len(insts) + 1, 0)} :
         \E y \in {IF w.c.status # "ok" THEN w.c
                   ELSE RunBody(Emit(w.c, "run", typ, Len(insts) + 1, ""),
                                typ, Len(insts) + 1)} :
           /\ Commit(y)
           /\ last' = Call("Run", Req("ptr", typ), "", y.status, Len(insts) + 1, <<>>)
  /\ calls' = calls + 1
  /\ regs' = regs
  /\ UNCHANGED asyncVars

(***************************************************************************)
(* Load, TryLoad.                                                          *)
(***************************************************************************)
Markers ==
  {Req("struct", "Store"), Req("ptr", "IStore")}

TryLoad(m) ==
  /\ alive
  /\ \E r \in {TryLoadResult(Cur, m)} :
       last' = Call("TryLoad", m, "", IF r.ok THEN "ok" ELSE "notfound", r.id, <<>>)
  /\ events' = <<>>
  /\ UNCHANGED <<types, impls, refs, creating, hasBuilt, insts, alive, regs, calls>>
  /\ UNCHANGED asyncVars

\* Load: the result of TryLoad, or log.Fatal when there is none
Load(m) ==
  /\ alive
  /\ \E r \in {TryLoadResult(Cur, m)} :
       /\ last' = Call("Load", m, "", IF r.ok THEN "ok" ELSE "fatal", r.id, <<>>)
       /\ alive' = r.ok
  /\ events' = <<>>
  /\ UNCHANGED <<types, impls, refs, creating, hasBuilt, insts, regs, calls>>
  /\ UNCHANGED asyncVars

Next ==
  \/ \E cmp \in Comps : Register(cmp)
  \/ \E p \in AsInputs : RegisterAsInterface(p[1], p[2])
  \/ Build
  \/ \E fn \in Fns : Exec(fn)
  \/ \E t \in Runnables : Run(t)
  \/ \E m \in Markers : TryLoad(m)
  \/ \E m \in Markers : Load(m)

Spec == Init /\ [][Next]_vars

(***************************************************************************)
(* ExecAsync, RunAsync, Wait.  Each asynchronous call adds one to c.wg     *)
(* and starts a goroutine that runs Exec or Run and then calls Done.       *)
(* depContainer holds no lock, so the goroutines interleave inside Exec,   *)
(* Run and Build; a goroutine is followed statement by statement:          *)
(*   "start"   the test `if !c.hasBuilt`                                   *)
(*   "sort"    Build: sort.Slice(c.types, ...)                             *)
(*   "check"   Build: `_, ok := c.refs[typ]` for the type at position i    *)
(*   "create"  Build: c.createComponent(typ)                               *)
(*   "init"    Build: the Init loop and c.hasBuilt = true                  *)
(*   "call"    executeFunc / wireComponent and the invocation              *)
(*   "fin"     c.wg.Done()                                                 *)
(* A panic or log.Fatal in a goroutine ends the process.  The calling      *)
(* goroutine registers first, then schedules work and waits.               *)
(***************************************************************************)
\* number of goroutines started in a run
MaxAsync == 2

\* the components registered before asynchronous work is scheduled
AsyncComps == {Req("struct", "Svc"), Req("ptr", "Store")}

\* a goroutine running Exec(arg) or Run(&arg{}): where it stands, the
\* position of its Build loop, the values its entry point received, and
\* whether it ran the build pass
Worker(k, a) ==
  [kind |-> k, arg |-> a, pc |-> "start", i |-> 0, args |-> <<>>, built |-> FALSE]

\* the fields as a step of a goroutine leaves them; a panic is not
\* recovered there, so anything but a normal end ends the process
CommitAsync(c) ==
  /\ types' = c.types
  /\ impls' = c.impls
  /\ refs' = c.refs
  /\ creating' = c.creating
  /\ hasBuilt' = c.hasBuilt
  /\ insts' = c.insts
  /\ events' = <<>>
  /\ alive' = (c.status = "ok")

\* a Wait that returns whatever the counter is
WaitCanReturnAlways(n) == TRUE

\* wg.Wait() returns when the counter is zero
WaitCanReturn(n) == n = 0

Schedule(k, a) ==
  /\ alive /\ main \in {"run", "returned"} /\ Len(work) < MaxAsync
  /\ wg' = wg + 1
  /\ work' = Append(work, Worker(k, a))
  /\ main' = "run"
  /\ UNCHANGED <<types, impls, refs, creating, hasBuilt, insts, events, last, alive,
                 regs, calls>>

ExecAsync(fn) == Schedule("Exec", fn)

RunAsync(typ) == Schedule("Run", typ)

RegisterFirst(cmp) == work = <<>> /\ main = "run" /\ Register(cmp)

WorkerStart(w) ==
  /\ alive /\ work[w].pc = "start"
  /\ work' = [work EXCEPT ![w].pc = IF hasBuilt THEN "call" ELSE "sort"]
  /\ UNCHANGED <<types, impls, refs, creating, hasBuilt, insts, events, last, alive,
                 regs, calls, wg, main>>

WorkerSort(w) ==
  /\ alive /\ work[w].pc = "sort"
  /\ types' = sortTypes(types, 2)
  /\ work' = [work EXCEPT ![w].pc = "check", ![w].i = 1, ![w].built = TRUE]
  /\ UNCHANGED <<impls, refs, creating, hasBuilt, insts, events, last, alive,
                 regs, calls, wg, main>>

WorkerCheck(w) ==
  /\ alive /\ work[w].pc = "check"
  /\ work' = IF work[w].i > Len(types)
             THEN [work EXCEPT ![w].pc = "init"]
             ELSE IF types[work[w].i] \in DOMAIN refs
                  THEN [work EXCEPT ![w].i = @ + 1]
                  ELSE [work EXCEPT ![w].pc = "create"]
  /\ UNCHANGED <<types, impls, refs, creating, hasBuilt, insts, events, last, alive,
                 regs, calls, wg, main>>

WorkerCreate(w) ==
  /\ alive /\ work[w].pc = "create"
  /\ \E r \in {createComponent(Cur, types[work[w].i], 0)} : CommitAsync(r.c)
  /\ work' = [work EXCEPT ![w].pc = "check", ![w].i = @ + 1]
  /\ UNCHANGED <<last, regs, calls, wg, main>>

WorkerInit(w) ==
  /\ alive /\ work[w].pc = "init"
  /\ \E o \in InitOrders(Cur) :
       CommitAsync([initRefs(Cur, o, 1) EXCEPT !.hasBuilt = TRUE])
  /\ work' = [work EXCEPT ![w].pc = "call"]
  /\ UNCHANGED <<last, regs, calls, wg, main>>

WorkerExec(w) ==
  /\ alive /\ work[w].pc = "call" /\ work[w].kind = "Exec"
  /\ \E x \in {executeFunc(Cur, work[w].arg, FnParams(work[w].arg), 0)} :
       \E y \in {IF x.c.status # "ok" THEN x.c
                 ELSE FnBody(Emit(x.c, "call", work[w].arg, 0, ""), work[w].arg, x.v)} :
         /\ CommitAsync(y)
         /\ work' = [work EXCEPT ![w].pc = "fin", ![w].args = x.v]
  /\ UNCHANGED <<last, regs, calls, wg, main>>

WorkerRun(w) ==
  /\ alive /\ work[w].pc = "call" /\ work[w].kind = "Run"
  /\ \E x \in {wireComponent(Emit([Cur EXCEPT !.insts =
                                      Append(@, NewInst(work[w].arg, "runnable"))],
                                   "given", work[w].arg, Len(insts) + 1, ""),
                              work[w].arg, Len(insts) + 1, 0)} :
       \E y \in {IF x.c.status # "ok" THEN x.c
                 ELSE RunBody(Emit(x.c, "run", work[w].arg, Len(insts) + 1, ""),
                              work[w].arg, Len(insts) + 1)} :
         /\ CommitAsync(y)
         /\ work' = [work EXCEPT ![w].pc = "fin",
                                 ![w].args = y.insts[Len(insts) + 1].deps]
  /\ UNCHANGED <<last, regs, calls, wg, main>>

WorkerDone(w) ==
  /\ alive /\ work[w].pc = "fin"
  /\ wg' = wg - 1
  /\ work' = [work EXCEPT ![w].pc = "done"]
  /\ UNCHANGED <<types, impls, refs, creating, hasBuilt, insts, events, last, alive,
                 regs, calls, main>>

WaitCall ==
  /\ alive /\ main = "run"
  /\ main' = "waiting"
  /\ UNCHANGED <<types, impls, refs, creating, hasBuilt, insts, events, last, alive,
                 regs, calls, wg, work>>

WaitReturn ==
  /\ alive /\ main = "waiting" /\ WaitCanReturn(wg)
  /\ main' = "returned"
  /\ UNCHANGED <<types, impls, refs, creating, hasBuilt, insts, events, last, alive,
                 regs, calls, wg, work>>

NextAsync ==
  \/ \E cmp \in AsyncComps : RegisterFirst(cmp)
  \/ \E fn \in {"SeedUsers"} : ExecAsync(fn)
  \/ \E t \in {"App"} : RunAsync(t)
  \/ \E w \in DOMAIN work : WorkerStart(w)
  \/ \E w \in DOMAIN work : WorkerSort(w)
  \/ \E w \in DOMAIN work : WorkerCheck(w)
  \/ \E w \in DOMAIN work : WorkerCreate(w)
  \/ \E w \in DOMAIN work : WorkerInit(w)
  \/ \E w \in DOMAIN work : WorkerExec(w)
  \/ \E w \in DOMAIN work : WorkerRun(w)
  \/ \E w \in DOMAIN work : WorkerDone(w)
  \/ WaitCall
  \/ WaitReturn

SpecAsync == Init /\ [][NextAsync]_vars

(***************************************************************************)
(* Runs that begin with the service registered: the state after            *)
(* c := New(); c.Register(ConcreteUserService{}), from which MaxRegs more  *)
(* registrations follow.  With the service in place the bound leaves room  *)
(* for a registry of three types besides the container.                    *)
(***************************************************************************)
InitSvc ==
  /\ types = <<"depContainer", "Svc">>
  /\ impls = [i \in {"Container"} |-> "depContainer"]
  /\ refs = [t \in {"depContainer"} |-> 1]
  /\ creating = {}
  /\ hasBuilt = FALSE
  /\ insts = <<NewInst("depContainer", "registered")>>
  /\ events = <<>>
  /\ last = Call("Register", Req("struct", "Svc"), "", "ok", 0, <<>>)
  /\ alive = TRUE
  /\ regs = 0
  /\ calls = 0
  /\ wg = 0
  /\ work = <<>>
  /\ main = "run"

SpecSvc == InitSvc /\ [][Next]_vars

(***************************************************************************)
(* Vocabulary of the properties.                                           *)
(***************************************************************************)
\* the last step was a call of one of these methods
Did(ops) == last.op \in ops

\* the types under construction when event k of the trace happened: those
\* allocated by createComponent, or handed to Run, whose wiring had not
\* completed yet
UnderConstruction(evs, k) ==
  {evs[j].typ : j \in {j \in 1..(k - 1) :
     /\ evs[j].ev \in {"alloc", "given"}
     /\ \A m \in (j + 1)..(k - 1) : ~(evs[m].ev = "wire" /\ evs[m].id = evs[j].id)}}

\* the registered types whose pointer implements iface
Implementors(iface) == {t \in Range(types) : iface \in Implements(t)}

\* the build pass ran in the last call, as its first step
RanBuild(evs) == Len(evs) > 0 /\ evs[1].ev = "build"

\* the build pass of the last call ran to its end
Built(evs) == \E k \in DOMAIN evs : evs[k].ev = "built"

\* the last call constructed, wired or initialised something
Lifecycle(evs) == \E k \in DOMAIN evs : evs[k].ev \in {"alloc", "wire", "Init"}

(***************************************************************************)
(* C1 (as claimed; code_bug).  Once c.refs holds an instance for a type,   *)
(* no later Build, Load, TryLoad, Exec or Run replaces that entry by       *)
(* another instance or wires that type again.  Run breaks it: it stores    *)
(* the Runnable it is handed as the entry of its type.                     *)
(***************************************************************************)
C1_CacheSingleAssignment ==
  [][last'.op \in {"Build", "Load", "TryLoad", "Exec", "Run"} =>
       \A t \in DOMAIN refs :
         /\ t \in DOMAIN refs'
         /\ refs'[t] = refs[t]
         /\ ~\E k \in DOMAIN events' : events'[k].ev = "wire" /\ events'[k].typ = t]_vars

(***************************************************************************)
(* C2.  When a build pass has completed, every registered type has an      *)
(* instance that Load returns, entries never disappear afterwards, and a   *)
(* Load directly after a Load of the same marker returns the same          *)
(* instance.                                                               *)
(***************************************************************************)
C2_LoadAfterBuild ==
  [][/\ \A t \in DOMAIN refs : t \in DOMAIN refs'
     /\ (\E k \in DOMAIN events' : events'[k].ev = "built") =>
          \A t \in Range(types) :
            /\ TryLoadResult(Cur, Req("struct", t))'.ok
            /\ insts'[TryLoadResult(Cur, Req("struct", t))'.id].typ = t
     /\ (/\ last.op = "Load" /\ last'.op = "Load"
         /\ last'.arg = last.arg
         /\ last.res = "ok") =>
          (last'.res = "ok" /\ last'.val = last.val)]_vars

\* a Load of a type registered by value found the instance the build made
C2_Witness ==
  /\ Did({"Load"}) /\ last.res = "ok" /\ hasBuilt
  /\ last.arg.kind = "struct"
  /\ insts[last.val].origin = "container"

(***************************************************************************)
(* C3 (as claimed; code_bug, through the Run of C1).  The entry of a type  *)
(* registered as a pointer stays the registered instance, and New and the  *)
(* field wiring are never applied to a registered instance.                *)
(***************************************************************************)
C3_RegisteredInstanceKept ==
  /\ \A t \in DOMAIN refs :
       (\E i \in DOMAIN insts : insts[i].typ = t /\ insts[i].origin = "registered") =>
          insts[refs[t]].origin = "registered"
  /\ \A i \in DOMAIN insts :
       insts[i].origin = "registered" => (insts[i].news = 0 /\ insts[i].wires = 0)

(***************************************************************************)
(* C4.  hasBuilt never goes back to FALSE; an Exec or Run on an unbuilt    *)
(* container runs the build pass first, and only then the entry point; an  *)
(* Exec or Run on a built container runs no build pass.                    *)
(***************************************************************************)
C4_BuildOnce ==
  [][/\ hasBuilt => hasBuilt'
     /\ (last'.op \in {"Exec", "Run"} /\ calls' = calls + 1) =>
          /\ RanBuild(events') <=> ~hasBuilt
          /\ \A k \in DOMAIN events' :
               events'[k].ev \in {"call", "run"} =>
                 (k = Len(events') /\ (~hasBuilt => (k > 1 /\ hasBuilt')))
          /\ \A k \in DOMAIN events' : events'[k].ev = "build" => k = 1]_vars

\* an Exec on an unbuilt container has run the build pass and then the function
C4_Witness ==
  /\ Did({"Exec"}) /\ last.res = "ok"
  /\ RanBuild(events)
  /\ events[Len(events)].ev = "call"
  /\ calls = 1

(***************************************************************************)
(* C5 (as claimed; code_bug).  A Build directly after a successful Build   *)
(* constructs nothing, invokes no hook and changes neither c.refs nor      *)
(* c.impls nor c.hasBuilt.  The code calls Init again on every entry.      *)
(***************************************************************************)
C5_BuildIdempotent ==
  [][(/\ last.op = "Build" /\ last.res = "ok"
      /\ last'.op = "Build" /\ calls' = calls + 1) =>
        /\ ~Lifecycle(events')
        /\ \A i \in DOMAIN insts : insts'[i] = insts[i]
        /\ refs' = refs /\ impls' = impls /\ hasBuilt' = hasBuilt]_vars

(***************************************************************************)
(* C6 (as claimed; code_bug).  A Load or TryLoad of a type registered by   *)
(* value is answered after the build pass, so it finds the instance, also  *)
(* when Build, Exec and Run were never called.  Stated for registries      *)
(* whose types need nothing, so that the build pass cannot fail.           *)
(***************************************************************************)
C6_LookupBuilds ==
  (/\ Did({"Load", "TryLoad"})
   /\ last.arg.kind = "struct"
   /\ last.arg.name \in Range(types)
   /\ \A t \in Range(types) : Fields(t) = <<>> /\ ~HasNewPtr(t)) =>
     (hasBuilt /\ last.res = "ok")

(***************************************************************************)
(* C7.  TryLoad of a marker for which no instance is cached (a type        *)
(* without entry, an interface none of whose implementors has an entry)    *)
(* returns (nil, false) and changes no field of the container; Load of     *)
(* such a marker ends in log.Fatal.                                        *)
(***************************************************************************)
NoCachedInstance(m) ==
  IF m.name \in Ifaces
  THEN \A t \in DOMAIN refs : m.name \notin Implements(insts[refs[t]].typ)
  ELSE m.name \notin DOMAIN refs

C7_LookupMiss ==
  [][/\ (last'.op = "TryLoad" /\ NoCachedInstance(last'.arg)) =>
          /\ last'.res = "notfound" /\ last'.val = 0
          /\ alive'
          /\ UNCHANGED <<types, impls, refs, creating, hasBuilt>>
     /\ (last'.op = "Load" /\ NoCachedInstance(last'.arg)) =>
          (last'.res = "fatal" /\ ~alive')]_vars

\* a TryLoad of a registered but not yet built type has answered not-found
C7_Witness ==
  /\ Did({"TryLoad"}) /\ last.res = "notfound"
  /\ last.arg.name \in Range(types)
  /\ alive

(***************************************************************************)
(* C8 (as claimed; code_bug).  On a built container a Load or TryLoad      *)
(* with an interface marker returns an instance of a registered            *)
(* implementor whenever one is registered.  The code answers only from     *)
(* c.impls, which has no entry until something required the interface.    *)
(***************************************************************************)
C8_LoadByInterface ==
  (/\ Did({"Load", "TryLoad"})
   /\ hasBuilt
   /\ last.arg.name \in Ifaces
   /\ Implementors(last.arg.name) # {}) =>
     /\ last.res = "ok"
     /\ last.arg.name \in Implements(insts[last.val].typ)

(***************************************************************************)
(* C9 (as claimed; code_bug, through the Run of C1).  A type whose wiring  *)
(* is under way is never chosen as the implementor of an interface; when   *)
(* an interface is required while its only registered implementor is       *)
(* being wired, the call ends in the panic of findImplementor, not in an   *)
(* unbounded recursion.  createComponent marks the type and the claim      *)
(* holds for what it creates; Run wires the instance it is handed without  *)
(* the mark.                                                               *)
(***************************************************************************)
C9_NoSelfImplementor ==
  \A k \in DOMAIN events :
    /\ events[k].ev = "chose" => events[k].typ \notin UnderConstruction(events, k)
    /\ (/\ events[k].ev \in {"chose", "noimpl"}
        /\ Cardinality(Implementors(events[k].aux)) = 1
        /\ Implementors(events[k].aux) \subseteq UnderConstruction(events, k)) =>
         /\ events[k].ev = "noimpl"
         /\ k = Len(events)
         /\ last.res = "panic"

\* Svc was required through Audit's wiring while Audit, the only registered
\* IStore, was under construction: the call panicked
C9_Witness ==
  /\ last.res = "panic"
  /\ \E k \in DOMAIN events :
       /\ events[k].ev = "noimpl"
       /\ events[k].typ # "Audit"
       /\ Implementors(events[k].aux) = {"Audit"}
       /\ "Audit" \in UnderConstruction(events, k)

C12_WaitCoversAllWork ==
  [][(main = "waiting" /\ main' = "returned") =>
       /\ \A w \in DOMAIN work : work[w].pc = "done"
       /\ \A w \in DOMAIN work' : work'[w].pc = "done"]_vars

\* Wait has returned after two goroutines ran their entry points
C12_Witness ==
  /\ main = "returned"
  /\ Len(work) = 2
  /\ \A w \in DOMAIN work : work[w].pc = "done" /\ work[w].args # <<>>

(***************************************************************************)
(* C13 (as claimed; code_bug).  Whatever the interleaving of the           *)
(* goroutines, the build pass is run by at most one of them, the           *)
(* container constructs at most one instance of a type, and the entry      *)
(* points receive the same service.  depContainer has no lock: two         *)
(* goroutines can both find hasBuilt false and both run Build, and both    *)
(* find a type without entry in c.refs and both construct it.              *)
(***************************************************************************)
C13_SerializedBuild ==
  /\ Cardinality({w \in DOMAIN work : work[w].built}) <= 1
  /\ \A t \in Types :
       Cardinality({i \in DOMAIN insts :
                      insts[i].typ = t /\ insts[i].origin = "container"}) <= 1
  /\ \A v, w \in DOMAIN work :
       (work[v].args # <<>> /\ work[w].args # <<>>) => work[v].args[1] = work[w].args[1]

(***************************************************************************)
(* C14 (as claimed; code_bug).  A binding of c.impls, once made, is never  *)
(* removed and never changed to another type, by any method.  The code     *)
(* binds anew when the bound type is being created (findImplementor), and  *)
(* RegisterAsInterface overwrites an existing binding.                     *)
(***************************************************************************)
C14_BindingPermanent ==
  [][\A i \in DOMAIN impls : i \in DOMAIN impls' /\ impls'[i] = impls[i]]_vars

(***************************************************************************)
(* C15 (as claimed; code_bug).  A search of c.types for an implementor     *)
(* finds the first type in the order of the registration calls that        *)
(* implements the interface and is not being created.  Stated for the      *)
(* first Build, Exec or Run of a run, before which c.types is in           *)
(* registration order.  Build sorts c.types, and the search follows the    *)
(* sorted order.                                                           *)
(***************************************************************************)
C15_ScanInRegistrationOrder ==
  [][(calls = 0 /\ calls' = 1) =>
       \A k \in DOMAIN events' :
         events'[k].ev = "scan" =>
           events'[k].typ =
             types[Min({i \in 1..Len(types) :
                          /\ events'[k].aux \in Implements(types[i])
                          /\ types[i] \notin events'[k].cr})]]_vars

(***************************************************************************)
(* C16 (as claimed; code_bug).  createComponent never starts constructing  *)
(* a type whose construction it has started and not finished, and no call  *)
(* ends by exhausting the stack.  createComponent does not look at         *)
(* c.creating: a type with a field of its own pointer type is constructed  *)
(* inside itself without end.                                              *)
(***************************************************************************)
C16_CycleReported ==
  /\ \A j, k \in DOMAIN events :
       (/\ j < k
        /\ events[j].ev = "alloc" /\ events[k].ev = "alloc"
        /\ events[j].typ = events[k].typ) =>
         \E m \in (j + 1)..(k - 1) :
           events[m].ev = "wire" /\ events[m].id = events[j].id
  /\ last.res # "overflow"

(***************************************************************************)
(* C17 (as claimed; code_bug).  At every step of a call c.creating is      *)
(* exactly the set of types for which a createComponent call has started   *)
(* and not returned, and between calls of a live process it is empty.      *)
(* The second half holds.  The first fails when a type is constructed      *)
(* inside its own construction: the inner return deletes the mark the      *)
(* outer call still needs.                                                 *)
(***************************************************************************)
OnStack(evs, k) ==
  {evs[j].typ : j \in {j \in 1..k :
     /\ evs[j].ev = "alloc"
     /\ \A m \in (j + 1)..(k - 1) : ~(evs[m].ev = "wire" /\ evs[m].id = evs[j].id)}}

C17_CreatingEmptyBetweenCalls == alive => creating = {}

C17_CreatingIsStack ==
  /\ C17_CreatingEmptyBetweenCalls
  /\ \A k \in DOMAIN events : events[k].cr = OnStack(events, k)

(***************************************************************************)
(* C18 (as claimed; code_bug).  When Build, Exec or Run has returned,      *)
(* every instance the container constructed and wired whose type has an    *)
(* Init method has had Init called exactly once, and when the call ran     *)
(* the build pass the same is true of every instance handed to Register.   *)
(* Init is called only by the loop of Build: an instance created after     *)
(* the build pass never gets it, and every further Build repeats it.       *)
(***************************************************************************)
C18_InitAtLeastOnce ==
  (alive /\ last.op \in {"Build", "Exec", "Run"} /\ last.res = "ok") =>
    \A i \in DOMAIN insts :
      (/\ HasInit(insts[i].typ)
       /\ insts[i].origin = "container"
       /\ insts[i].wires >= 1) => insts[i].inits >= 1

C18_InitOnce ==
  (alive /\ last.op \in {"Build", "Exec", "Run"} /\ last.res = "ok") =>
    \A i \in DOMAIN insts :
      /\ (/\ HasInit(insts[i].typ)
          /\ insts[i].origin = "container"
          /\ insts[i].wires >= 1) => insts[i].inits = 1
      /\ (/\ HasInit(insts[i].typ)
          /\ insts[i].origin = "registered"
          /\ i \in Range(refs)
          /\ Built(events)) => insts[i].inits = 1

(***************************************************************************)
(* C19 (as claimed; code_bug).  Once the loop of Build has taken a type    *)
(* for construction, no type whose New has fewer parameters, or that has   *)
(* no New, is constructed later in that call: those came first.  A New     *)
(* with pointer receiver counts as it does for wiring.  The sort key is    *)
(* read from the method set of the struct type, where a New with pointer   *)
(* receiver does not appear, so such a type sorts like one without New.    *)
(***************************************************************************)
\* the claimed sort key: the number of parameters of the New that wiring calls
WiringArgCount(t) == IF HasNewPtr(t) THEN Len(NewParams(t)) ELSE -1

\* event k is the loop of Build taking a type: an allocation with nothing
\* else under construction, before the end of the build pass
TakenByBuild(evs, k) ==
  /\ RanBuild(evs)
  /\ evs[k].ev = "alloc"
  /\ evs[k].cr = {evs[k].typ}
  /\ \A j \in 1..k : evs[j].ev # "built"

C19_BuildOrderByNewParams ==
  \A k \in DOMAIN events :
    TakenByBuild(events, k) =>
      \A j \in (k + 1)..Len(events) :
        events[j].ev = "alloc" =>
          WiringArgCount(events[j].typ) >= WiringArgCount(events[k].typ)

(***************************************************************************)
(* C20.  An instance created by createComponent enters c.refs only when    *)
(* its fields are set or its New has returned.  Every cached instance the  *)
(* container created is wired, and so is every such instance Load or       *)
(* TryLoad returns or Exec passes to a function; and when a call has       *)
(* ended in a panic, no type whose construction the panic cut short has    *)
(* an entry in c.refs, so TryLoad of it reports (nil, false).              *)
(***************************************************************************)
\* instance i is not a half-made one: if the container created it, its
\* wiring has completed
Complete(i) == insts[i].origin = "container" => insts[i].wires >= 1

\* the allocations of the call whose wiring did not complete
FailedAllocs(evs) ==
  {k \in DOMAIN evs :
     /\ evs[k].ev = "alloc"
     /\ \A m \in (k + 1)..Len(evs) : ~(evs[m].ev = "wire" /\ evs[m].id = evs[k].id)}

C20_FailedConstructionNotCached ==
  /\ \A t \in DOMAIN refs : Complete(refs[t])
  /\ (last.op \in {"Load", "TryLoad"} /\ last.val # 0) => Complete(last.val)
  /\ \A a \in DOMAIN last.args : Complete(last.args[a].id)
  /\ (alive /\ last.res = "panic") =>
       \A k \in FailedAllocs(events) :
         /\ events[k].typ \notin DOMAIN refs
         /\ ~TryLoadResult(Cur, Req("struct", events[k].typ)).ok
         /\ ~TryLoadResult(Cur, Req("ptr", events[k].typ)).ok

\* reached: a call has panicked for want of an implementor two or more
\* constructions deep, and the types cut short have no entry
C20_Witness ==
  /\ alive /\ last.res = "panic"
  /\ Cardinality(FailedAllocs(events)) >= 2
  /\ \E k \in DOMAIN events : events[k].ev = "noimpl"
  /\ \A k \in FailedAllocs(events) : events[k].typ \notin DOMAIN refs

====
